---- MODULE Spec2Model ----
(***************************************************************************)
(* FutureForceAI: the Next.js API routes that relay interview sessions     *)
(* and CV records between the browser, MongoDB (Conversation and CV        *)
(* collections), the shared uploads directory and the FastAPI AI backend.  *)
(* Every route handler is one action; the handler's code is an operator    *)
(* that maps the request, the outcome of its outbound calls and the        *)
(* current stores to the response and the new stores.                      *)
(***************************************************************************)
EXTENDS Integers, Sequences, FiniteSets, TLC

VARIABLES
    conversations,  \* Conversation collection: session_id -> document
    cvs,            \* CV collection: _id -> document
    files,          \* names of the files present in the uploads directory
    now,            \* the clock read by Date.now() / new Date()
    nextId,         \* the next ObjectId that mongoose.Types.ObjectId() hands out
    last,           \* the request just handled and its response
    inflight,       \* chat requests suspended at an await: request -> position
    cached,         \* lib/db.js: global.mongoose = { conn, promise }
    attempts,       \* the promises mongoose.connect() returned, in call order
    dbcalls,        \* calls of connectToDatabase(): call -> position
    relays          \* suggest-roles-upload requests: request -> position

routeVars == <<conversations, cvs, files, now, nextId, last, inflight>>
dbVars == <<cached, attempts, dbcalls>>
vars == <<conversations, cvs, files, now, nextId, last, inflight, cached, attempts, dbcalls,
          relays>>

----------------------------------------------------------------------------
(* Bounds of the model *)

MaxClock == 1
MaxSessions == 1
MaxCvs == 1
MaxMsgs == 3
MaxListed == 12
MaxOthers == 1
MaxUploads == 11
MaxStored == 2
MaxRead == 2
MaxDbCalls == 3
MaxRelays == 2

----------------------------------------------------------------------------
(* Values *)

Users == {"u1", "u2"}

NoToken == "none"
Tokens == {NoToken, "forged", "tok_u1", "tok_u2"}

\* jwt.verify(token, JWT_SECRET): the decoded payload, or a throw (ok = FALSE).
JwtVerify(token) ==
    IF token = "tok_u1" THEN [ok |-> TRUE, userId |-> "u1"]
    ELSE IF token = "tok_u2" THEN [ok |-> TRUE, userId |-> "u2"]
    ELSE [ok |-> FALSE, userId |-> "nobody"]

Msg(s, t) == [sender |-> s, text |-> t]
NoMessage == Msg("none", "")

\* Session identifiers: the backend's own, and the locally synthesized
\* `fallback-${Date.now()}` and `error-${Date.now()}`.
SessionId(k, n) == [kind |-> k, n |-> n]
NoSessionId == SessionId("none", 0)
UnknownSessionId == SessionId("sess", 0)

NoCvId == 0
UnknownCvId == MaxUploads + 1

\* A request without a cv_file part.
NoFile == [name |-> "", size |-> 0]

JobRoles == {"", "Software Engineer"}
UserMessages == {"", "hello"}

\* Status codes of a failing upstream reply (response.ok is false).
UpstreamErrorStatuses == {404, 500}

\* What may go wrong inside a handler besides the upstream call: the request
\* body does not parse, or the database cannot be reached.
Faults == {"none", "body", "db"}

\* The reply of an upstream call that is never made.
NoReply == [kind |-> "none", status |-> 0, messages |-> <<>>]

ResponseOk(status) == status >= 200 /\ status <= 299

----------------------------------------------------------------------------
(* The request record kept in `last` *)

NoRequest ==
    [op |-> "none", token |-> NoToken, status |-> 0,
     req_session |-> NoSessionId, req_message |-> "", req_cv |-> NoCvId,
     req_role |-> "", wrote |-> FALSE,
     upstream |-> "none", pre |-> <<>>,
     session_id |-> NoSessionId, first |-> NoMessage, resp_cv |-> NoCvId,
     hasMessages |-> FALSE, messages |-> <<>>,
     hasSessions |-> FALSE, sessions |-> <<>>,
     req_file |-> NoFile, hasCvs |-> FALSE, cvList |-> <<>>,
     calls |-> 0, db |-> FALSE]

\* What a handler hands back: the response and the stores it leaves.
Outcome(resp) ==
    [resp |-> resp, conversations |-> conversations, cvs |-> cvs, files |-> files,
     nextId |-> nextId]

----------------------------------------------------------------------------
(* POST /api/interview/chat *)

ChatIncompleteText ==
    "I received your message, but there was an issue processing it. Could you please continue?"
ChatParseFallbackText ==
    "I received your message, but there was an issue with our system. Let's continue the interview. What skills do you have that are relevant to this position?"
ChatFetchFallbackText ==
    "Thank you for your response. Due to technical difficulties, I'm unable to provide a personalized reply, but please continue with the interview. Can you tell me about a challenging project you've worked on?"
ChatServerErrorText ==
    "Sorry, there was an error processing your message. Please try again."
BackendQuestionText == "backend question"

\* What the AI backend may answer to POST /api/interview/chat.
UpstreamChatReplies(stored, user_message) ==
    {[kind |-> "unreachable", status |-> 0, messages |-> <<>>],
     [kind |-> "unparsable", status |-> 200, messages |-> <<>>],
     [kind |-> "incomplete", status |-> 200, messages |-> <<>>]}
    \cup {[kind |-> "error", status |-> s, messages |-> <<>>] : s \in UpstreamErrorStatuses}
    \cup {[kind |-> "array", status |-> 200, messages |-> m] :
            m \in {stored \o <<Msg("user", user_message), Msg("ai", BackendQuestionText)>>,
                   <<>>}}

\* Conversation.updateOne({ session_id }, { $set: { messages } })
UpdateMessagesOfAll(session_id, messages) ==
    [s \in DOMAIN conversations |-> [conversations[s] EXCEPT !.messages = messages]]
UpdateMessages(session_id, messages) ==
    [conversations EXCEPT ![session_id].messages = messages]

\* conversation.user_id.toString() !== userId
ChatOwnerMismatchAlwaysPasses(conversation, userId) == FALSE
ChatOwnerMismatch(conversation, userId) == conversation.user_id # userId

\* [...conversation.messages, { sender: "user", text: user_message }] and the
\* pushed AI fallback message.
ChatExistingMessagesDropsUser(conversation, user_message, aiText) ==
    conversation.messages \o <<Msg("ai", aiText)>>
ChatExistingMessages(conversation, user_message, aiText) ==
    conversation.messages \o <<Msg("user", user_message), Msg("ai", aiText)>>

\* try { await Conversation.updateOne(...) } catch (dbErr) { log }: the status
\* of the response does not depend on the write.
StatusAfterWriteUncaught(writeOk) == IF writeOk THEN 200 ELSE 500
StatusAfterWrite(writeOk) == 200

\* The handler after the conversation was loaded and its owner checked.
ChatForward(req, session_id, user_message, upstream, writeOk) ==
    LET conversation == conversations[session_id]
        sent == [req EXCEPT !.calls = 1, !.upstream = upstream.kind]
        written(messages) ==
            IF writeOk THEN UpdateMessages(session_id, messages) ELSE conversations
    IN  IF upstream.kind = "unreachable"
        THEN LET existingMessages ==
                     ChatExistingMessages(conversation, user_message, ChatFetchFallbackText)
             IN  [Outcome([sent EXCEPT !.status = StatusAfterWrite(writeOk),
                                       !.hasMessages = TRUE,
                                       !.messages = existingMessages,
                                       !.wrote = writeOk])
                    EXCEPT !.conversations = written(existingMessages)]
        ELSE IF ~ResponseOk(upstream.status)
        THEN Outcome([sent EXCEPT !.status = upstream.status])
        ELSE IF upstream.kind = "unparsable"
        THEN LET existingMessages ==
                     ChatExistingMessages(conversation, user_message, ChatParseFallbackText)
             IN  [Outcome([sent EXCEPT !.status = StatusAfterWrite(writeOk),
                                       !.hasMessages = TRUE,
                                       !.messages = existingMessages,
                                       !.wrote = writeOk])
                    EXCEPT !.conversations = written(existingMessages)]
        ELSE IF upstream.kind = "incomplete"
        THEN Outcome([sent EXCEPT !.status = 200, !.hasMessages = TRUE,
                                  !.messages = <<Msg("ai", ChatIncompleteText)>>])
        ELSE [Outcome([sent EXCEPT !.status = StatusAfterWrite(writeOk),
                                   !.hasMessages = TRUE,
                                   !.messages = upstream.messages,
                                   !.wrote = writeOk])
                EXCEPT !.conversations = written(upstream.messages)]

ChatPOST(fault, token, session_id, user_message, upstream, writeOk) ==
    LET req == [NoRequest EXCEPT !.op = "chat", !.token = token,
                                 !.req_session = session_id,
                                 !.req_message = user_message]
        serverError(r) ==
            Outcome([r EXCEPT !.status = 500, !.hasMessages = TRUE,
                              !.messages = <<Msg("ai", ChatServerErrorText)>>])
    IN  IF fault = "body" THEN serverError([NoRequest EXCEPT !.op = "chat", !.token = token])
        ELSE IF session_id = NoSessionId THEN Outcome([req EXCEPT !.status = 400])
        ELSE IF user_message = "" THEN Outcome([req EXCEPT !.status = 400])
        ELSE IF token = NoToken THEN Outcome([req EXCEPT !.status = 401])
        ELSE IF ~JwtVerify(token).ok THEN Outcome([req EXCEPT !.status = 401])
        ELSE IF fault = "db" THEN serverError([req EXCEPT !.db = TRUE])
        ELSE IF session_id \notin DOMAIN conversations
        THEN Outcome([req EXCEPT !.status = 404, !.db = TRUE])
        ELSE IF ChatOwnerMismatch(conversations[session_id], JwtVerify(token).userId)
        THEN Outcome([req EXCEPT !.status = 403, !.db = TRUE,
                                 !.pre = conversations[session_id].messages])
        ELSE ChatForward([req EXCEPT !.db = TRUE,
                                     !.pre = conversations[session_id].messages],
                         session_id, user_message, upstream, writeOk)

----------------------------------------------------------------------------
(* GET /api/interview/sessions *)

\* .limit(10)
SessionsLimit == 10

\* The summary the handler formats from a conversation document.
SessionSummary(session_id) ==
    [id |-> session_id,
     job_role |-> conversations[session_id].job_role,
     created_at |-> conversations[session_id].createdAt,
     finished |-> conversations[session_id].finished,
     message_count |-> Len(conversations[session_id].messages)]

\* The document .sort({ createdAt: -1 }) puts first: the newest one, and among
\* documents of one creation time the one inserted first.
Newest(ids) ==
    CHOOSE s \in ids : \A t \in ids :
        \/ conversations[s].createdAt > conversations[t].createdAt
        \/ /\ conversations[s].createdAt = conversations[t].createdAt
           /\ s.n <= t.n

RECURSIVE SortByCreatedAtDesc(_)
SortByCreatedAtDesc(ids) ==
    IF ids = {} THEN <<>>
    ELSE <<Newest(ids)>> \o SortByCreatedAtDesc(ids \ {Newest(ids)})

Limit(seq, n) == SubSeq(seq, 1, IF Len(seq) < n THEN Len(seq) ELSE n)

\* Conversation.find({ user_id: userId }).sort({ createdAt: -1 }).limit(10),
\* mapped to summaries.
FindSessionsOfAnyUser(userId) ==
    LET found == Limit(SortByCreatedAtDesc(DOMAIN conversations), SessionsLimit)
    IN  [i \in 1..Len(found) |-> SessionSummary(found[i])]
FindSessions(userId) ==
    LET ids == {s \in DOMAIN conversations : conversations[s].user_id = userId}
        found == Limit(SortByCreatedAtDesc(ids), SessionsLimit)
    IN  [i \in 1..Len(found) |-> SessionSummary(found[i])]

\* What the backend's GET /api/interview/sessions returns for a user.
BackendListSessions(userId) == FindSessions(userId)

\* What the backend may answer to the listing request.
UpstreamListReplies ==
    {[kind |-> k, status |-> 200] : k \in {"unreachable", "unparsable", "ok"}}
    \cup {[kind |-> "error", status |-> st] : st \in UpstreamErrorStatuses}

SessionsGET(token, upstream, dbOk) ==
    LET req == [NoRequest EXCEPT !.op = "sessions", !.token = token]
        userId == JwtVerify(token).userId
        sent == [req EXCEPT !.calls = 1, !.upstream = upstream.kind]
        \* the direct query (`wrote` records that it went through); when it
        \* throws, the last resort is the empty list
        direct == [sent EXCEPT !.status = 200, !.db = TRUE, !.hasSessions = TRUE,
                               !.wrote = dbOk,
                               !.sessions = IF dbOk THEN FindSessions(userId) ELSE <<>>]
    IN  IF token = NoToken THEN Outcome([req EXCEPT !.status = 401])
        ELSE IF ~JwtVerify(token).ok THEN Outcome([req EXCEPT !.status = 401])
        ELSE IF upstream.kind = "unreachable" THEN Outcome(direct)
        ELSE IF ~ResponseOk(upstream.status)
        THEN IF upstream.status = 404 THEN Outcome(direct)
             ELSE Outcome([sent EXCEPT !.status = upstream.status])
        ELSE IF upstream.kind = "unparsable" THEN Outcome(direct)
        ELSE Outcome([sent EXCEPT !.status = 200, !.hasSessions = TRUE,
                                  !.sessions = BackendListSessions(userId)])

----------------------------------------------------------------------------
(* GET /api/interview/sessions/[id] *)

\* Conversation.findOne({ session_id: id, user_id: userId })
FindOneSessionOfAnyUser(id, userId) ==
    IF id \in DOMAIN conversations THEN {id} ELSE {}
FindOneSession(id, userId) ==
    IF id \in DOMAIN conversations /\ conversations[id].user_id = userId
    THEN {id} ELSE {}

\* What the backend's GET /api/interview/session/{id} may answer: the session
\* only to its owner.
UpstreamSessionReplies(userId, id) ==
    {[kind |-> k, status |-> 200] : k \in {"unreachable", "unparsable"}}
    \cup {[kind |-> "error", status |-> st] : st \in UpstreamErrorStatuses}
    \cup (IF id \in DOMAIN conversations /\ conversations[id].user_id = userId
          THEN {[kind |-> "ok", status |-> 200]} ELSE {})

SessionGET(token, id, dbOk, upstream) ==
    LET req == [NoRequest EXCEPT !.op = "session", !.token = token, !.req_session = id]
        userId == JwtVerify(token).userId
        found == IF dbOk THEN FindOneSession(id, userId) ELSE {}
        sent == [req EXCEPT !.db = TRUE, !.calls = 1, !.upstream = upstream.kind]
    IN  IF token = NoToken THEN Outcome([req EXCEPT !.status = 401])
        ELSE IF ~JwtVerify(token).ok THEN Outcome([req EXCEPT !.status = 401])
        ELSE IF found # {}
        THEN LET conversation == conversations[CHOOSE s \in found : TRUE]
             IN  Outcome([req EXCEPT !.status = 200, !.db = TRUE, !.wrote = TRUE,
                                     !.session_id = id, !.hasMessages = TRUE,
                                     !.messages = conversation.messages])
        ELSE IF upstream.kind \in {"unreachable", "unparsable"}
        THEN Outcome([sent EXCEPT !.status = 404])
        ELSE IF ~ResponseOk(upstream.status)
        THEN Outcome([sent EXCEPT !.status = upstream.status])
        ELSE Outcome([sent EXCEPT !.status = 200, !.session_id = id,
                                  !.hasMessages = TRUE,
                                  !.messages = conversations[id].messages])

----------------------------------------------------------------------------
(* The AI backend's interview-start endpoints *)

BackendOpeningText == "backend opening question"
StartFallbackText == "Welcome to the interview. Can you tell me about yourself?"
StartFetchFallbackText ==
    "Welcome to the interview. Due to a temporary issue connecting to our AI service, we'll proceed with a simulation. Can you tell me about yourself?"
StartServerErrorText == "There was an error starting the interview. Please try again."

\* What the AI backend may answer to a start request: "ok" is a complete
\* {session_id, first_ai_message}, "incomplete" a JSON body without them.
UpstreamStartKinds ==
    {"unreachable", "error", "unparsable", "incomplete"}
    \cup (IF Cardinality(DOMAIN conversations) < MaxSessions THEN {"ok"} ELSE {})

UpstreamStartStatus(kind) == IF kind = "error" THEN 500 ELSE 200

NewSessionId == SessionId("sess", Cardinality(DOMAIN conversations) + 1)

\* The conversation record the backend persists when it starts a session.
BackendCreateConversation(userId, job_role, cv_text) ==
    [s \in DOMAIN conversations \cup {NewSessionId} |->
        IF s = NewSessionId
        THEN [user_id |-> userId, job_role |-> job_role, cv_text |-> cv_text,
              messages |-> <<Msg("ai", BackendOpeningText)>>,
              createdAt |-> now, finished |-> FALSE]
        ELSE conversations[s]]

\* The stores after the backend handled a start request with reply `kind`.
AfterBackendStart(out, kind, userId, job_role, cv_text) ==
    IF kind = "ok"
    THEN [out EXCEPT !.conversations = BackendCreateConversation(userId, job_role, cv_text)]
    ELSE out

\* The catch-all of the start routes: 500 with an `error-${Date.now()}` id.
StartServerError(out, req) ==
    [out EXCEPT !.resp = [req EXCEPT !.status = 500,
                                     !.session_id = SessionId("error", now),
                                     !.first = Msg("ai", StartServerErrorText)]]

----------------------------------------------------------------------------
(* CV documents and the uploads directory *)

UploadedFiles == {[name |-> "my cv.pdf", size |-> 2000000]}

\* cvFile.name.replace(/[^a-zA-Z0-9.-]/g, '_')
CleanFileName(name) == IF name = "my cv.pdf" THEN "my_cv.pdf" ELSE name

NoFileId == 0
\* A stored file name `${prefix}_${name}`.
StoredName(prefix, name) == [prefix |-> prefix, name |-> name]
NoPath == StoredName(0, "")

\* existsSync(cvRecord.filePath)
FileExists(cv) == cv.filePath # NoPath /\ cv.filePath \in files

\* cvRecord.userId.toString() !== userId
CvOwnerMismatchAlwaysPasses(cv, userId) == FALSE
CvOwnerMismatch(cv, userId) == cv.userId # userId

InsertCv(store, id, doc) ==
    [c \in DOMAIN store \cup {id} |-> IF c = id THEN doc ELSE store[c]]

\* CV.findByIdAndDelete(id)
RemoveCvKeepsRecord(store, id) == store
RemoveCv(store, id) == [c \in DOMAIN store \ {id} |-> store[c]]

\* cvRecord.lastUsed = new Date(); await cvRecord.save()
TouchLastUsed(store, id) == [store EXCEPT ![id].lastUsed = now]

----------------------------------------------------------------------------
(* POST /api/interview/start-with-saved-cv *)

StartWithSavedCvPOST(token, fault, cv_id, job_role, kind) ==
    LET req0 == [NoRequest EXCEPT !.op = "start-with-saved-cv", !.token = token]
        req == [req0 EXCEPT !.req_cv = cv_id, !.req_role = job_role]
        userId == JwtVerify(token).userId
        out == Outcome(req)
    IN  IF token = NoToken THEN Outcome([req0 EXCEPT !.status = 401])
        ELSE IF ~JwtVerify(token).ok THEN Outcome([req0 EXCEPT !.status = 401])
        ELSE IF fault = "body" THEN StartServerError(out, req0)
        ELSE IF cv_id = NoCvId \/ job_role = ""
        THEN Outcome([req EXCEPT !.status = 400])
        ELSE IF fault = "db" THEN StartServerError(out, [req EXCEPT !.db = TRUE])
        ELSE IF cv_id \notin DOMAIN cvs \/ CvOwnerMismatch(cvs[cv_id], userId)
        THEN Outcome([req EXCEPT !.status = 404, !.db = TRUE])
        ELSE
        LET touched == [out EXCEPT !.cvs = TouchLastUsed(cvs, cv_id)]
            found == [req EXCEPT !.db = TRUE]
            sent == [found EXCEPT !.calls = 1, !.upstream = kind]
            cv_text == cvs[cv_id].originalName
            fallback == [sent EXCEPT !.status = 200,
                                     !.session_id = SessionId("fallback", now),
                                     !.first = Msg("ai", StartFallbackText),
                                     !.resp_cv = cv_id]
        IN  IF ~FileExists(cvs[cv_id])
            THEN [touched EXCEPT !.resp = [found EXCEPT !.status = 404]]
            ELSE IF kind = "unreachable"
            THEN StartServerError(touched, sent)
            ELSE IF ~ResponseOk(UpstreamStartStatus(kind))
            THEN [touched EXCEPT !.resp = [sent EXCEPT !.status = UpstreamStartStatus(kind)]]
            ELSE IF kind \in {"incomplete", "unparsable"}
            THEN [touched EXCEPT !.resp = fallback]
            ELSE [AfterBackendStart(touched, kind, userId, job_role, cv_text)
                    EXCEPT !.resp = [sent EXCEPT !.status = 200,
                                                 !.session_id = NewSessionId,
                                                 !.first = Msg("ai", BackendOpeningText),
                                                 !.resp_cv = cv_id]]

----------------------------------------------------------------------------
(* POST /api/interview/start *)

\* The application/json branch: forwards cv_id and job_role to the backend.
StartJson(req0, token, fault, cv_id, job_role, kind) ==
    LET json == [req0 EXCEPT !.op = "start-json"]
        req == [json EXCEPT !.req_cv = cv_id, !.req_role = job_role]
        userId == JwtVerify(token).userId
        out == Outcome(req)
        sent == [req EXCEPT !.calls = 1, !.upstream = kind]
        cv_text == IF cv_id \in DOMAIN cvs THEN cvs[cv_id].originalName ELSE ""
    IN  IF fault = "body" THEN StartServerError(out, json)
        ELSE IF cv_id = NoCvId \/ job_role = ""
        THEN Outcome([req EXCEPT !.status = 400])
        ELSE IF kind = "unreachable" THEN StartServerError(out, sent)
        ELSE IF ~ResponseOk(UpstreamStartStatus(kind))
        THEN Outcome([sent EXCEPT !.status = UpstreamStartStatus(kind)])
        ELSE IF kind = "unparsable" THEN StartServerError(out, sent)
        ELSE IF kind = "incomplete" THEN Outcome([sent EXCEPT !.status = 200])
        ELSE [AfterBackendStart(out, kind, userId, job_role, cv_text)
                EXCEPT !.resp = [sent EXCEPT !.status = 200,
                                             !.session_id = NewSessionId,
                                             !.first = Msg("ai", BackendOpeningText)]]

\* The save_cv branch of the multipart path: write the file, create the record.
SaveUploadedCv(out, userId, cvFile) ==
    LET filename == StoredName(nextId, cvFile.name)
        doc == [userId |-> userId, filename |-> filename,
                originalName |-> cvFile.name, fileSize |-> cvFile.size,
                filePath |-> filename, extractedText |-> "",
                uploadedAt |-> now, lastUsed |-> now, fileId |-> NoFileId]
    IN  [out EXCEPT !.files = files \cup {filename},
                    !.cvs = InsertCv(cvs, nextId, doc),
                    !.nextId = nextId + 1]

\* The multipart/form-data branch.
StartMultipart(req0, token, fault, cvId, cvFile, jobRole, saveCV, kind) ==
    LET form == [req0 EXCEPT !.op = "start-multipart"]
        req == [form EXCEPT !.req_cv = cvId, !.req_role = jobRole,
                            !.req_file = cvFile]
        userId == JwtVerify(token).userId
        out == Outcome(req)
        found == [req EXCEPT !.db = TRUE]
        sent == [found EXCEPT !.calls = 1, !.upstream = kind]
        \* the stores and the record (its id) once the CV was resolved
        resolved ==
            IF cvId # NoCvId
            THEN [out |-> [out EXCEPT !.cvs = TouchLastUsed(cvs, cvId)], cv |-> cvId]
            ELSE IF saveCV /\ nextId <= MaxCvs
            THEN [out |-> SaveUploadedCv(out, userId, cvFile), cv |-> nextId]
            ELSE [out |-> out, cv |-> NoCvId]
        cv_text == IF cvId # NoCvId THEN cvs[cvId].originalName ELSE cvFile.name
    IN  IF fault = "body" THEN StartServerError(out, form)
        ELSE IF jobRole = "" THEN Outcome([req EXCEPT !.status = 400])
        ELSE IF cvFile = NoFile /\ cvId = NoCvId THEN Outcome([req EXCEPT !.status = 400])
        ELSE IF fault = "db" THEN StartServerError(out, found)
        ELSE IF cvId # NoCvId /\ (cvId \notin DOMAIN cvs \/ CvOwnerMismatch(cvs[cvId], userId))
        THEN Outcome([found EXCEPT !.status = 404])
        ELSE IF cvId # NoCvId /\ ~FileExists(cvs[cvId])
        THEN [resolved.out EXCEPT !.resp = [found EXCEPT !.status = 404]]
        ELSE IF kind = "unreachable" THEN StartServerError(resolved.out, sent)
        ELSE IF ~ResponseOk(UpstreamStartStatus(kind))
        THEN [resolved.out EXCEPT !.resp = [sent EXCEPT !.status = UpstreamStartStatus(kind)]]
        ELSE IF kind = "unparsable"
        THEN [resolved.out EXCEPT !.resp = [sent EXCEPT !.status = 200,
                                              !.session_id = SessionId("fallback", now),
                                              !.first = Msg("ai", StartFallbackText),
                                              !.resp_cv = resolved.cv]]
        ELSE IF kind = "incomplete"
        THEN [resolved.out EXCEPT !.resp = [sent EXCEPT !.status = 200,
                                              !.resp_cv = resolved.cv]]
        ELSE [AfterBackendStart(resolved.out, kind, userId, jobRole, cv_text)
                EXCEPT !.resp = [sent EXCEPT !.status = 200,
                                             !.session_id = NewSessionId,
                                             !.first = Msg("ai", BackendOpeningText),
                                             !.resp_cv = resolved.cv]]

ContentTypes == {"application/json", "multipart/form-data", "text/plain"}

StartPOST(contentType, token, fault, cv_id, cvFile, job_role, saveCV, kind) ==
    LET req == [NoRequest EXCEPT !.op = "start", !.token = token]
    IN  IF token = NoToken THEN Outcome([req EXCEPT !.status = 401])
        ELSE IF ~JwtVerify(token).ok THEN Outcome([req EXCEPT !.status = 401])
        ELSE IF contentType = "application/json"
        THEN StartJson(req, token, fault, cv_id, job_role, kind)
        ELSE IF contentType = "multipart/form-data"
        THEN StartMultipart(req, token, fault, cv_id, cvFile, job_role, saveCV, kind)
        ELSE Outcome([req EXCEPT !.status = 400])

\* The earlier /api/interview/start handler: a plain multipart proxy.
StartProxyPOST(token, fault, job_role, kind) ==
    LET req == [NoRequest EXCEPT !.op = "start-proxy", !.token = token]
        userId == JwtVerify(token).userId
        out == Outcome(req)
        sent == [req EXCEPT !.calls = 1, !.upstream = kind, !.req_role = job_role]
        fallback(text) == [sent EXCEPT !.status = 200,
                                       !.session_id = SessionId("fallback", now),
                                       !.first = Msg("ai", text)]
    IN  IF token = NoToken THEN Outcome([req EXCEPT !.status = 401])
        ELSE IF ~JwtVerify(token).ok THEN Outcome([req EXCEPT !.status = 401])
        ELSE IF fault = "body" THEN StartServerError(out, req)
        ELSE IF kind = "unreachable" THEN Outcome(fallback(StartFetchFallbackText))
        ELSE IF ~ResponseOk(UpstreamStartStatus(kind))
        THEN Outcome([sent EXCEPT !.status = UpstreamStartStatus(kind)])
        ELSE IF kind \in {"incomplete", "unparsable"}
        THEN Outcome(fallback(StartFallbackText))
        ELSE [AfterBackendStart(out, kind, userId, job_role, "uploaded")
                EXCEPT !.resp = [sent EXCEPT !.status = 200,
                                             !.session_id = NewSessionId,
                                             !.first = Msg("ai", BackendOpeningText)]]

----------------------------------------------------------------------------
(* POST /api/user/save-cv *)

\* What the backend's /api/cv/save-cv may answer.
UpstreamExtractKinds == {"unreachable", "error", "unparsable", "no_text", "text"}

\* The extractedText the record ends with: data.extracted_text when the
\* backend's reply is 2xx, parses and carries a non-empty one.
ExtractedTextOfAnyReply(kind) == "extracted"
ExtractedText(kind) == IF kind = "text" THEN "extracted" ELSE ""

SaveCvPOST(token, fault, cvFile, kind) ==
    LET req == [NoRequest EXCEPT !.op = "save-cv", !.token = token,
                                 !.req_file = cvFile]
        userId == JwtVerify(token).userId
        out == Outcome(req)
        fileId == nextId
        filename == StoredName(fileId, CleanFileName(cvFile.name))
        doc == [userId |-> userId, filename |-> filename,
                originalName |-> cvFile.name, fileSize |-> cvFile.size,
                filePath |-> filename,
                extractedText |-> ExtractedText(kind),
                uploadedAt |-> now, lastUsed |-> now, fileId |-> fileId]
        failed(r) == [r EXCEPT !.status = 500]
    IN  IF token = NoToken THEN Outcome([req EXCEPT !.status = 401])
        ELSE IF ~JwtVerify(token).ok THEN Outcome([req EXCEPT !.status = 401])
        ELSE IF fault = "body" THEN Outcome(failed(req))
        ELSE IF cvFile = NoFile THEN Outcome([req EXCEPT !.status = 400])
        ELSE IF fault = "db"
        THEN [out EXCEPT !.files = files \cup {filename}, !.nextId = nextId + 1,
                         !.resp = failed([req EXCEPT !.db = TRUE])]
        ELSE [out EXCEPT !.files = files \cup {filename},
                         !.cvs = InsertCv(cvs, nextId, doc),
                         !.nextId = nextId + 1,
                         !.resp = [req EXCEPT !.status = 200, !.db = TRUE, !.calls = 1,
                                              !.upstream = kind, !.resp_cv = nextId]]

----------------------------------------------------------------------------
(* GET /api/user/cvs *)

CvsLimit == 10
CvsLimitSecond == 20

\* The order MongoDB returns documents with equal sort keys in is not
\* specified: insertion order and its reverse are two orders it may use.
TieOrders == {"insertion", "reverse"}

\* One formatted entry of the listing; `cv.originalName || cv.filename`.
CvEntry(id) ==
    [id |-> id,
     filename |-> IF cvs[id].originalName # "" THEN cvs[id].originalName
                  ELSE cvs[id].filename,
     size |-> cvs[id].fileSize,
     uploadedAt |-> cvs[id].uploadedAt,
     lastUsed |-> cvs[id].lastUsed]

MostRecentlyUsed(ids, tie) ==
    CHOOSE c \in ids : \A d \in ids :
        \/ cvs[c].lastUsed > cvs[d].lastUsed
        \/ /\ cvs[c].lastUsed = cvs[d].lastUsed
           /\ IF tie = "insertion" THEN c <= d ELSE c >= d

RECURSIVE SortByLastUsedDesc(_, _)
SortByLastUsedDesc(ids, tie) ==
    IF ids = {} THEN <<>>
    ELSE <<MostRecentlyUsed(ids, tie)>>
         \o SortByLastUsedDesc(ids \ {MostRecentlyUsed(ids, tie)}, tie)

\* CV.find({ userId }).sort({ lastUsed: -1 }).select(...).limit(n), formatted.
FindCvsOfAnyUser(userId, n, tie) ==
    LET found == Limit(SortByLastUsedDesc(DOMAIN cvs, tie), n)
    IN  [i \in 1..Len(found) |-> CvEntry(found[i])]
FindCvs(userId, n, tie) ==
    LET ids == {c \in DOMAIN cvs : cvs[c].userId = userId}
        found == Limit(SortByLastUsedDesc(ids, tie), n)
    IN  [i \in 1..Len(found) |-> CvEntry(found[i])]

\* collection.find({ $or: [...] }).toArray(): every record of the user, in
\* the collection's own order.
FindCvsRaw(userId) ==
    LET ids == {c \in DOMAIN cvs : cvs[c].userId = userId}
        byId[k \in 0..nextId] ==
            IF k = 0 THEN <<>>
            ELSE byId[k - 1] \o (IF k \in ids THEN <<CvEntry(k)>> ELSE <<>>)
    IN  byId[nextId]

\* The first version of the handler.
CvsGET(token, dbOk, tie) ==
    LET req == [NoRequest EXCEPT !.op = "cvs", !.token = token]
        userId == JwtVerify(token).userId
        found == [req EXCEPT !.db = TRUE]
    IN  IF token = NoToken THEN Outcome([req EXCEPT !.status = 401])
        ELSE IF ~JwtVerify(token).ok THEN Outcome([req EXCEPT !.status = 401])
        ELSE IF ~dbOk THEN Outcome([found EXCEPT !.status = 500])
        ELSE Outcome([found EXCEPT !.status = 200, !.wrote = TRUE, !.hasCvs = TRUE,
                                   !.cvList = FindCvs(userId, CvsLimit, tie)])

\* The second version: the model query, then the raw collection query when
\* the model query throws, then an empty list.
CvsSecondGET(token, dbOk, rawOk, tie) ==
    LET req == [NoRequest EXCEPT !.op = "cvs-second", !.token = token]
        userId == JwtVerify(token).userId
        found == [req EXCEPT !.db = TRUE, !.status = 200, !.hasCvs = TRUE]
    IN  IF token = NoToken THEN Outcome([req EXCEPT !.status = 401])
        ELSE IF ~JwtVerify(token).ok THEN Outcome([req EXCEPT !.status = 401])
        ELSE IF dbOk
        THEN Outcome([found EXCEPT !.wrote = TRUE,
                                   !.cvList = FindCvs(userId, CvsLimitSecond, tie)])
        ELSE IF rawOk
        THEN Outcome([found EXCEPT !.wrote = TRUE, !.cvList = FindCvsRaw(userId)])
        ELSE Outcome([found EXCEPT !.cvList = <<>>])
----------------------------------------------------------------------------
(* DELETE /api/user/cv/[id] and DELETE /api/user/resumes/[id] *)

\* file.includes(pattern) on the names the model uploads.
NameIncludes(name, pattern) ==
    \/ name = pattern
    \/ <<name, pattern>> \in {<<"my_cv.pdf", "cv.pdf">>, <<"my cv.pdf", "cv.pdf">>}

\* unlink(path): the file is gone unless the file system refuses.
Unlink(present, path, unlinkOk) == IF unlinkOk THEN present \ {path} ELSE present

\* The first version of the handler: unlink cv.filePath, delete the record.
CvDeleteFirst(token, fault, id, unlinkOk) ==
    LET req == [NoRequest EXCEPT !.op = "delete-cv-first", !.token = token, !.req_cv = id]
        userId == JwtVerify(token).userId
        out == Outcome(req)
    IN  IF token = NoToken THEN Outcome([req EXCEPT !.status = 401])
        ELSE IF ~JwtVerify(token).ok THEN Outcome([req EXCEPT !.status = 401])
        ELSE IF fault = "db" THEN Outcome([req EXCEPT !.status = 500, !.db = TRUE])
        ELSE IF id \notin DOMAIN cvs THEN Outcome([req EXCEPT !.status = 404, !.db = TRUE])
        ELSE IF CvOwnerMismatch(cvs[id], userId)
        THEN Outcome([req EXCEPT !.status = 403, !.db = TRUE])
        ELSE [out EXCEPT !.files = IF cvs[id].filePath # NoPath
                                   THEN Unlink(files, cvs[id].filePath, unlinkOk)
                                   ELSE files,
                         !.cvs = RemoveCv(cvs, id),
                         !.resp = [req EXCEPT !.status = 200, !.db = TRUE, !.wrote = TRUE]]

\* potentialPaths of the second version, in the order they are tried.
PotentialPaths(cv) ==
    (IF cv.filePath # NoPath THEN <<cv.filePath>> ELSE <<>>)
    \o (IF cv.fileId # NoFileId
        THEN <<StoredName(cv.fileId, CleanFileName(cv.originalName))>> ELSE <<>>)
    \o <<cv.filename>>
    \o <<StoredName(NoFileId, cv.originalName)>>

\* The loop over potentialPaths: the first path that exists is unlinked; a
\* failing unlink moves on to the next path.
RECURSIVE DeleteFirstExisting(_, _, _)
DeleteFirstExisting(present, paths, unlinkOk) ==
    IF paths = <<>> THEN present
    ELSE IF Head(paths) \in present /\ unlinkOk THEN present \ {Head(paths)}
    ELSE DeleteFirstExisting(present, Tail(paths), unlinkOk)

\* The sweep after the record is deleted: every file of the uploads directory
\* whose name includes the sanitized original name is unlinked.
SweepMatchingFiles(present, cv, unlinkOk) ==
    IF unlinkOk
    THEN {f \in present : ~NameIncludes(f.name, CleanFileName(cv.originalName))}
    ELSE present

\* The second version of the handler.
CvDELETE(token, fault, id, unlinkOk) ==
    LET req == [NoRequest EXCEPT !.op = "delete-cv", !.token = token, !.req_cv = id]
        userId == JwtVerify(token).userId
        out == Outcome(req)
    IN  IF token = NoToken THEN Outcome([req EXCEPT !.status = 401])
        ELSE IF ~JwtVerify(token).ok THEN Outcome([req EXCEPT !.status = 401])
        ELSE IF fault = "db" THEN Outcome([req EXCEPT !.status = 500, !.db = TRUE])
        ELSE IF id \notin DOMAIN cvs THEN Outcome([req EXCEPT !.status = 404, !.db = TRUE])
        ELSE IF CvOwnerMismatch(cvs[id], userId)
        THEN Outcome([req EXCEPT !.status = 403, !.db = TRUE])
        ELSE LET afterLoop == DeleteFirstExisting(files, PotentialPaths(cvs[id]), unlinkOk)
             IN  [out EXCEPT !.files = SweepMatchingFiles(afterLoop, cvs[id], unlinkOk),
                             !.cvs = RemoveCv(cvs, id),
                             !.resp = [req EXCEPT !.status = 200, !.db = TRUE,
                                                  !.wrote = TRUE]]

\* DELETE /api/user/resumes/[id]
ResumeDELETE(token, fault, resumeId, unlinkOk) ==
    LET req == [NoRequest EXCEPT !.op = "delete-resume", !.token = token,
                                 !.req_cv = resumeId]
        userId == JwtVerify(token).userId
        out == Outcome(req)
    IN  IF token = NoToken THEN Outcome([req EXCEPT !.status = 401])
        ELSE IF ~JwtVerify(token).ok THEN Outcome([req EXCEPT !.status = 401])
        ELSE IF fault = "db" THEN Outcome([req EXCEPT !.status = 500, !.db = TRUE])
        ELSE IF resumeId \notin DOMAIN cvs
        THEN Outcome([req EXCEPT !.status = 404, !.db = TRUE])
        ELSE IF CvOwnerMismatch(cvs[resumeId], userId)
        THEN Outcome([req EXCEPT !.status = 403, !.db = TRUE])
        ELSE [out EXCEPT !.files = IF FileExists(cvs[resumeId])
                                   THEN Unlink(files, cvs[resumeId].filePath, unlinkOk)
                                   ELSE files,
                         !.cvs = RemoveCv(cvs, resumeId),
                         !.resp = [req EXCEPT !.status = 200, !.db = TRUE, !.wrote = TRUE]]

----------------------------------------------------------------------------
(* POST /api/interview/chat, step by step: two requests of the session's     *)
(* owner that the event loop interleaves at the handler's awaits             *)

ChatRequests == {1, 2}

\* The user_message of each of the two requests.
RaceMessage(r) == IF r = 1 THEN "first turn" ELSE "second turn"

NotStarted ==
    [pc |-> "start", session_id |-> NoSessionId, token |-> NoToken,
     loaded |-> <<>>, wrote |-> FALSE]

\* Conversation.updateOne({ session_id }, { $set: { messages } }): the filter
\* names the session only, whatever list the handler had loaded.
SetMessagesIfUnchanged(stored, loaded, messages) ==
    IF stored = loaded THEN messages ELSE stored
SetMessages(stored, loaded, messages) == messages

\* The handler up to `await fetch`: the body and the token are checked, the
\* conversation is loaded and belongs to the caller.
ChatLoad(r) ==
    /\ inflight[r].pc = "start"
    /\ \E token \in Tokens, session_id \in DOMAIN conversations :
          /\ JwtVerify(token).ok
          /\ ~ChatOwnerMismatch(conversations[session_id], JwtVerify(token).userId)
          /\ Len(conversations[session_id].messages) + 2 <= MaxMsgs
          /\ inflight' = [inflight EXCEPT ![r] =
                 [pc |-> "fetching", session_id |-> session_id, token |-> token,
                  loaded |-> conversations[session_id].messages, wrote |-> FALSE]]
    /\ UNCHANGED <<conversations, cvs, files, now, nextId, last, dbVars, relays>>

\* The handler from the failing fetch on: the fallback list is built from the
\* list loaded earlier, written and returned.
ChatFallbackWrite(r) ==
    /\ inflight[r].pc = "fetching"
    /\ \E kind \in {"unreachable", "unparsable"}, writeOk \in BOOLEAN :
          LET session_id == inflight[r].session_id
              aiText == IF kind = "unreachable" THEN ChatFetchFallbackText
                        ELSE ChatParseFallbackText
              existingMessages ==
                  ChatExistingMessages([messages |-> inflight[r].loaded],
                                       RaceMessage(r), aiText)
              stored == conversations[session_id].messages
          IN  /\ conversations' =
                     IF writeOk
                     THEN [conversations EXCEPT ![session_id].messages =
                              SetMessages(stored, inflight[r].loaded, existingMessages)]
                     ELSE conversations
              /\ inflight' = [inflight EXCEPT ![r].pc = "done", ![r].wrote = writeOk]
              /\ last' = [NoRequest EXCEPT !.op = "chat", !.token = inflight[r].token,
                                           !.req_session = session_id,
                                           !.req_message = RaceMessage(r),
                                           !.db = TRUE, !.calls = 1, !.upstream = kind,
                                           !.pre = inflight[r].loaded,
                                           !.status = StatusAfterWrite(writeOk),
                                           !.hasMessages = TRUE,
                                           !.messages = existingMessages,
                                           !.wrote = writeOk]
    /\ UNCHANGED <<cvs, files, now, nextId, dbVars, relays>>

----------------------------------------------------------------------------
(* lib/db.js: connectToDatabase(), step by step. A call runs to its await   *)
(* without interruption; calls interleave at the await.                     *)

DbCalls == 1..MaxDbCalls

NoConnection == 0
NoPromise == 0
NotCalled == [pc |-> "idle", result |-> NoConnection, waited |-> FALSE]

\* if (!cached.promise)
PromiseMissingNeverChecked(cache) == TRUE
PromiseMissing(cache) == cache.promise = NoPromise

\* The call up to `return cached.conn` or up to `await cached.promise`.
DbCall(c) ==
    /\ dbcalls[c].pc = "idle"
    /\ IF cached.conn # NoConnection
       THEN /\ dbcalls' = [dbcalls EXCEPT ![c] = [pc |-> "returned",
                                                   result |-> cached.conn,
                                                   waited |-> FALSE]]
            /\ UNCHANGED <<cached, attempts>>
       ELSE /\ IF PromiseMissing(cached)
               THEN /\ attempts' = Append(attempts, "pending")
                    /\ cached' = [cached EXCEPT !.promise = Len(attempts) + 1]
               ELSE UNCHANGED <<cached, attempts>>
            /\ dbcalls' = [dbcalls EXCEPT ![c].pc = "awaiting", ![c].waited = TRUE]
    /\ UNCHANGED <<routeVars, relays>>

\* mongoose.connect() settles: the promise resolves to the connection, or
\* rejects.
DbSettle(k) ==
    /\ k \in 1..Len(attempts)
    /\ attempts[k] = "pending"
    /\ \E outcome \in {"resolved", "rejected"} :
          attempts' = [attempts EXCEPT ![k] = outcome]
    /\ UNCHANGED <<cached, dbcalls>>
    /\ UNCHANGED <<routeVars, relays>>

\* The call after the await: cached.conn = <the connection>; return it. A
\* rejected promise throws out of the call.
DbResume(c) ==
    /\ dbcalls[c].pc = "awaiting"
    /\ attempts[cached.promise] # "pending"
    /\ IF attempts[cached.promise] = "resolved"
       THEN /\ cached' = [cached EXCEPT !.conn = cached.promise]
            /\ dbcalls' = [dbcalls EXCEPT ![c].pc = "returned",
                                          ![c].result = cached.promise]
       ELSE /\ dbcalls' = [dbcalls EXCEPT ![c].pc = "threw"]
            /\ UNCHANGED cached
    /\ UNCHANGED attempts
    /\ UNCHANGED <<routeVars, relays>>

\* The caller that got its answer calls again.
DbCallAgain(c) ==
    /\ dbcalls[c].pc \in {"returned", "threw"}
    /\ dbcalls' = [dbcalls EXCEPT ![c].pc = "idle"]
    /\ UNCHANGED <<cached, attempts>>
    /\ UNCHANGED <<routeVars, relays>>

----------------------------------------------------------------------------
(* POST of the suggest-roles-upload relay, step by step: the forward, the   *)
(* solve-captcha request, the resubmission                                  *)

RelayRequests == 1..MaxRelays

NotReceived ==
    [pc |-> "idle", first |-> "none", solver |-> "none", resubmit |-> "none",
     calls |-> 0, solves |-> 0, resubmits |-> 0, responses |-> 0,
     status |-> 0, captcha_required |-> FALSE]

\* NextResponse.json(body, { status }): the request is answered.
Respond(relay, status, captcha_required) ==
    [relay EXCEPT !.pc = "done", !.responses = relay.responses + 1,
                  !.status = status, !.captcha_required = captcha_required]

\* What the backend may answer to the forwarded upload: a throwing fetch, a
\* body that does not parse, the suggestions, an error without a challenge,
\* a CAPTCHA challenge.
UpstreamUploadKinds == {"unreachable", "unparsable", "ok", "error", "captcha"}
\* What solve-captcha may answer.
UpstreamSolverKinds == {"unreachable", "error", "unparsable", "no_token", "token"}
\* What the backend may answer to the resubmission.
UpstreamResubmitKinds == {"unreachable", "unparsable", "ok", "error", "captcha"}

\* The status of a reply that is not ok.
UpstreamUploadStatus(kind) == IF kind = "captcha" THEN 403 ELSE 500

\* Where the handler goes when the resubmission is not ok: it answers.
RetryAfterRejectedResubmit(relay, kind) == [relay EXCEPT !.pc = "challenged"]
AfterRejectedResubmit(relay, kind) == Respond(relay, UpstreamUploadStatus(kind), FALSE)

\* The handler up to the reply of the forwarded upload.
RelayForward(r) ==
    /\ relays[r].pc = "idle"
    /\ \/ \E status \in {401, 400, 500} :
             relays' = [relays EXCEPT ![r] = Respond(relays[r], status, FALSE)]
       \/ \E kind \in UpstreamUploadKinds :
             LET sent == [relays[r] EXCEPT !.calls = 1, !.first = kind]
             IN  relays' = [relays EXCEPT ![r] =
                    IF kind \in {"unreachable", "unparsable"} THEN Respond(sent, 500, FALSE)
                    ELSE IF kind = "captcha" THEN [sent EXCEPT !.pc = "challenged"]
                    ELSE IF kind = "error"
                    THEN Respond(sent, UpstreamUploadStatus(kind), FALSE)
                    ELSE Respond(sent, 200, FALSE)]
    /\ UNCHANGED <<routeVars, dbVars>>

\* The solve-captcha request and its reply.
RelaySolve(r) ==
    /\ relays[r].pc = "challenged"
    /\ \E kind \in UpstreamSolverKinds :
          LET sent == [relays[r] EXCEPT !.calls = relays[r].calls + 1,
                                        !.solves = relays[r].solves + 1,
                                        !.solver = kind]
          IN  relays' = [relays EXCEPT ![r] =
                 IF kind = "token" THEN [sent EXCEPT !.pc = "solved"]
                 ELSE Respond(sent, 403, TRUE)]
    /\ UNCHANGED <<routeVars, dbVars>>

\* The resubmission with the CAPTCHA token and its reply.
RelayResubmit(r) ==
    /\ relays[r].pc = "solved"
    /\ \E kind \in UpstreamResubmitKinds :
          LET sent == [relays[r] EXCEPT !.calls = relays[r].calls + 1,
                                        !.resubmits = relays[r].resubmits + 1,
                                        !.resubmit = kind]
          IN  relays' = [relays EXCEPT ![r] =
                 IF kind \in {"unreachable", "unparsable"} THEN Respond(sent, 403, TRUE)
                 ELSE IF kind = "ok" THEN Respond(sent, 200, FALSE)
                 ELSE AfterRejectedResubmit(sent, kind)]
    /\ UNCHANGED <<routeVars, dbVars>>

----------------------------------------------------------------------------
(* Actions *)

Apply(out) ==
    /\ last' = out.resp
    /\ conversations' = out.conversations
    /\ cvs' = out.cvs
    /\ files' = out.files
    /\ nextId' = out.nextId
    /\ UNCHANGED <<now, inflight, dbVars, relays>>

SessionIdInputs == DOMAIN conversations \cup {NoSessionId, UnknownSessionId}
CvIdInputs == DOMAIN cvs \cup {NoCvId, UnknownCvId}
FileInputs == UploadedFiles \cup {NoFile}

\* The environment chooses the upstream reply only of a call that is made.
Chat ==
    \E token \in Tokens, session_id \in SessionIdInputs,
       user_message \in UserMessages, fault \in Faults :
       LET probe == ChatPOST(fault, token, session_id, user_message, NoReply, TRUE)
       IN  IF probe.resp.calls = 0
           THEN Apply(probe)
           ELSE LET stored == conversations[session_id].messages
                IN  /\ Len(stored) + 2 <= MaxMsgs
                    /\ \E upstream \in UpstreamChatReplies(stored, user_message),
                          writeOk \in BOOLEAN :
                          Apply(ChatPOST(fault, token, session_id, user_message,
                                         upstream, writeOk))

StartProxy ==
    \E token \in Tokens, fault \in Faults \ {"db"}, job_role \in JobRoles \ {""} :
       LET probe == StartProxyPOST(token, fault, job_role, "none")
       IN  IF probe.resp.calls = 0
           THEN Apply(probe)
           ELSE \E kind \in UpstreamStartKinds :
                   Apply(StartProxyPOST(token, fault, job_role, kind))

StartWithSavedCv ==
    \E token \in Tokens, fault \in Faults, cv_id \in CvIdInputs, job_role \in JobRoles :
       LET probe == StartWithSavedCvPOST(token, fault, cv_id, job_role, "none")
       IN  IF probe.resp.calls = 0
           THEN Apply(probe)
           ELSE \E kind \in UpstreamStartKinds :
                   Apply(StartWithSavedCvPOST(token, fault, cv_id, job_role, kind))

Start ==
    \E contentType \in ContentTypes, token \in Tokens :
       IF contentType = "application/json"
       THEN \E fault \in Faults \ {"db"}, cv_id \in CvIdInputs, job_role \in JobRoles :
               LET probe == StartPOST(contentType, token, fault, cv_id, NoFile,
                                      job_role, FALSE, "none")
               IN  IF probe.resp.calls = 0
                   THEN Apply(probe)
                   ELSE \E kind \in UpstreamStartKinds :
                           Apply(StartPOST(contentType, token, fault, cv_id, NoFile,
                                           job_role, FALSE, kind))
       ELSE IF contentType = "multipart/form-data"
       THEN \E fault \in Faults, cv_id \in CvIdInputs, cvFile \in FileInputs,
               job_role \in JobRoles, saveCV \in BOOLEAN :
               LET probe == StartPOST(contentType, token, fault, cv_id, cvFile,
                                      job_role, saveCV, "none")
               IN  IF probe.resp.calls = 0
                   THEN Apply(probe)
                   ELSE \E kind \in UpstreamStartKinds :
                           Apply(StartPOST(contentType, token, fault, cv_id, cvFile,
                                           job_role, saveCV, kind))
       ELSE Apply(StartPOST(contentType, token, "none", NoCvId, NoFile, "", FALSE, "none"))

\* Bootstraps of a signed-in user over the store that deletes act on.
BootSavedCv ==
    \E token \in {"tok_u1", "tok_u2"}, cv_id \in DOMAIN cvs \cup {NoCvId},
       job_role \in JobRoles :
       LET probe == StartWithSavedCvPOST(token, "none", cv_id, job_role, "none")
       IN  IF probe.resp.calls = 0
           THEN Apply(probe)
           ELSE \E kind \in UpstreamStartKinds :
                   Apply(StartWithSavedCvPOST(token, "none", cv_id, job_role, kind))

BootMultipart ==
    \E token \in {"tok_u1", "tok_u2"}, cv_id \in DOMAIN cvs \cup {NoCvId},
       cvFile \in FileInputs, job_role \in JobRoles :
       LET probe == StartPOST("multipart/form-data", token, "none", cv_id, cvFile,
                              job_role, FALSE, "none")
       IN  IF probe.resp.calls = 0
           THEN Apply(probe)
           ELSE \E kind \in UpstreamStartKinds :
                   Apply(StartPOST("multipart/form-data", token, "none", cv_id, cvFile,
                                   job_role, FALSE, kind))

SaveCv ==
    /\ nextId <= MaxCvs
    /\ \E token \in Tokens, fault \in Faults, cvFile \in FileInputs :
          LET probe == SaveCvPOST(token, fault, cvFile, "none")
          IN  IF probe.resp.calls = 0
              THEN Apply(probe)
              ELSE \E kind \in UpstreamExtractKinds :
                      Apply(SaveCvPOST(token, fault, cvFile, kind))

\* Sessions started for the listing: requests the backend answers with a new
\* session. The second user starts sessions only among the first MaxOthers.
StartListed ==
    \E token \in {"tok_u1", "tok_u2"} :
       /\ Cardinality(DOMAIN conversations) < MaxListed
       /\ token = "tok_u2" => Cardinality(DOMAIN conversations) < MaxOthers
       /\ Apply(StartProxyPOST(token, "none", "Software Engineer", "ok"))

Sessions ==
    \E token \in Tokens :
       LET probe == SessionsGET(token, [kind |-> "none", status |-> 0], TRUE)
       IN  IF probe.resp.calls = 0
           THEN Apply(probe)
           ELSE \E upstream \in UpstreamListReplies, dbOk \in BOOLEAN :
                   Apply(SessionsGET(token, upstream, dbOk))

\* CVs uploaded for the listing: uploads the backend extracts text from. The
\* second user uploads only among the first MaxOthers.
SaveCvListed ==
    \E token \in {"tok_u1", "tok_u2"}, cvFile \in UploadedFiles :
       /\ nextId <= MaxUploads
       /\ token = "tok_u2" => nextId <= MaxOthers
       /\ Apply(SaveCvPOST(token, "none", cvFile, "text"))

Cvs ==
    \E token \in Tokens, dbOk \in BOOLEAN, tie \in TieOrders :
       Apply(CvsGET(token, dbOk, tie))

CvsSecond ==
    \E token \in Tokens, dbOk \in BOOLEAN, rawOk \in BOOLEAN, tie \in TieOrders :
       Apply(CvsSecondGET(token, dbOk, rawOk, tie))
\* CVs uploaded to the store that deletes act on; the record is created, or
\* the database fails after the file was written.
SaveCvStored ==
    \E token \in {"tok_u1", "tok_u2"}, fault \in {"none", "db"}, cvFile \in UploadedFiles :
       /\ nextId <= MaxStored
       /\ Apply(SaveCvPOST(token, fault, cvFile, "no_text"))

\* Sessions started for the read endpoints, by either user.
StartRead ==
    \E token \in {"tok_u1", "tok_u2"} :
       /\ Cardinality(DOMAIN conversations) < MaxRead
       /\ Apply(StartProxyPOST(token, "none", "Software Engineer", "ok"))

\* The stores the chat relay runs over: each user starts one session, and one
\* CV is uploaded.
StartFrame ==
    \E token \in {"tok_u1", "tok_u2"} :
       /\ \A s \in DOMAIN conversations :
             conversations[s].user_id # JwtVerify(token).userId
       /\ Apply(StartProxyPOST(token, "none", "Software Engineer", "ok"))

SaveCvFrame ==
    \E token \in {"tok_u1", "tok_u2"}, cvFile \in UploadedFiles :
       /\ DOMAIN cvs = {}
       /\ Apply(SaveCvPOST(token, "none", cvFile, "text"))

SessionGet ==
    \E token \in Tokens, id \in SessionIdInputs \ {NoSessionId} :
       LET probe == SessionGET(token, id, TRUE, [kind |-> "none", status |-> 0])
       IN  IF probe.resp.db = FALSE
           THEN Apply(probe)
           ELSE \E dbOk \in BOOLEAN, upstream \in UpstreamSessionReplies(JwtVerify(token).userId, id) :
                   Apply(SessionGET(token, id, dbOk, upstream))

DeleteCvFirst ==
    \E token \in Tokens, fault \in Faults \ {"body"}, id \in CvIdInputs \ {NoCvId},
       unlinkOk \in BOOLEAN :
       Apply(CvDeleteFirst(token, fault, id, unlinkOk))

DeleteCv ==
    \E token \in Tokens, fault \in Faults \ {"body"}, id \in CvIdInputs \ {NoCvId},
       unlinkOk \in BOOLEAN :
       Apply(CvDELETE(token, fault, id, unlinkOk))

DeleteResume ==
    \E token \in Tokens, fault \in Faults \ {"body"}, id \in CvIdInputs \ {NoCvId},
       unlinkOk \in BOOLEAN :
       Apply(ResumeDELETE(token, fault, id, unlinkOk))

Tick ==
    /\ now < MaxClock
    /\ now' = now + 1
    /\ last' = NoRequest
    /\ UNCHANGED <<conversations, cvs, files, nextId, inflight, dbVars, relays>>

Init ==
    /\ conversations = <<>>
    /\ cvs = <<>>
    /\ files = {}
    /\ now = 0
    /\ nextId = 1
    /\ last = NoRequest
    /\ inflight = [r \in ChatRequests |-> NotStarted]
    /\ cached = [conn |-> NoConnection, promise |-> NoPromise]
    /\ attempts = <<>>
    /\ dbcalls = [c \in DbCalls |-> NotCalled]
    /\ relays = [r \in RelayRequests |-> NotReceived]

\* The interview flows: sessions are started and chatted in.
Next ==
    \/ StartProxy
    \/ Chat

Spec == Init /\ [][Next]_vars

\* The CV flows: CVs are uploaded, selected for a session, deleted.
NextCv ==
    \/ Tick
    \/ SaveCv
    \/ StartWithSavedCv
    \/ Start

SpecCv == Init /\ [][NextCv]_vars

\* The CV store: CVs are uploaded and deleted.
NextDelete ==
    \/ SaveCv
    \/ DeleteCvFirst
    \/ DeleteCv
    \/ DeleteResume

SpecDelete == Init /\ [][NextDelete]_vars

\* The CV store with several records: CVs are uploaded and deleted.
NextStore ==
    \/ SaveCvStored
    \/ DeleteCvFirst
    \/ DeleteCv
    \/ DeleteResume

SpecStore == Init /\ [][NextStore]_vars

\* Session bootstrap over a store that deletes act on: CVs are uploaded,
\* deleted and selected for a session.
NextBoot ==
    \/ SaveCvStored
    \/ DeleteCv
    \/ BootSavedCv
    \/ BootMultipart

SpecBoot == Init /\ [][NextBoot]_vars

\* The read endpoints over both stores: sessions are started, CVs uploaded,
\* sessions and CVs listed, single sessions fetched.
NextRead ==
    \/ StartRead
    \/ SaveCvStored
    \/ Sessions
    \/ SessionGet
    \/ Cvs
    \/ CvsSecond

SpecRead == Init /\ [][NextRead]_vars

\* Calls of connectToDatabase() in one process.
NextDb ==
    \/ \E c \in DbCalls : DbCall(c)
    \/ \E k \in 1..MaxDbCalls : DbSettle(k)
    \/ \E c \in DbCalls : DbResume(c)
    \/ \E c \in DbCalls : DbCallAgain(c)

SpecDb == Init /\ [][NextDb]_vars

\* The chat relay over stores that hold several conversations and CV records.
NextFrame ==
    \/ StartFrame
    \/ SaveCvFrame
    \/ Chat

SpecFrame == Init /\ [][NextFrame]_vars

\* Requests to the suggest-roles-upload relay.
NextRelay ==
    \/ \E r \in RelayRequests : RelayForward(r)
    \/ \E r \in RelayRequests : RelaySolve(r)
    \/ \E r \in RelayRequests : RelayResubmit(r)

SpecRelay == Init /\ [][NextRelay]_vars

\* The history listing: sessions are started, time passes, sessions are listed.
NextList ==
    \/ StartListed
    \/ Tick
    \/ Sessions

SpecList == Init /\ [][NextList]_vars

\* The CV listing: CVs are uploaded, time passes, CVs are listed.
NextCvList ==
    \/ SaveCvListed
    \/ Tick
    \/ Cvs
    \/ CvsSecond

SpecCvList == Init /\ [][NextCvList]_vars
\* Two chat requests in flight on a session that was started.
NextRace ==
    \/ StartProxy
    \/ \E r \in ChatRequests : ChatLoad(r)
    \/ \E r \in ChatRequests : ChatFallbackWrite(r)

SpecRace == Init /\ [][NextRace]_vars

----------------------------------------------------------------------------
(* Properties of the chat relay, checked under Spec *)

\* The last request was a chat call that passed every check of the handler
\* (body, token, session found, owner) and was forwarded to the AI backend.
ChatForwarded == last.op = "chat" /\ last.calls = 1

\* The list ends with an AI turn that the list `pre` did not have.
HasNewAiTurn(messages, pre) ==
    /\ Len(messages) > Len(pre)
    /\ messages[Len(messages)].sender = "ai"

\* A handler that gave up in its catch-all before any upstream call.
HandlerFailed(r) == r.status = 500 /\ r.calls = 0

\* C1: whatever the AI backend answers to a chat call of the session's owner,
\* the returned message list is strictly longer than the list stored before
\* the call and ends with an "ai" message.
C1_ReturnedListGrowsAndEndsWithAi ==
    ChatForwarded => last.hasMessages /\ HasNewAiTurn(last.messages, last.pre)

\* C2: every message list the chat relay returns with a success status
\* contains the user message that was just sent.
C2_ReturnedListHasUserTurn ==
    (last.op = "chat" /\ ResponseOk(last.status) /\ last.hasMessages) =>
        \E i \in 1..Len(last.messages) :
            last.messages[i] = Msg("user", last.req_message)

\* C3: when the AI backend fails (unreachable, non-2xx, body not the expected
\* JSON), the owner's chat call still gets a non-empty `messages` array whose
\* last entry is from "ai".
C3_UpstreamFailureStillYieldsMessages ==
    (ChatForwarded /\ last.upstream \in {"unreachable", "error", "unparsable", "incomplete"}) =>
        /\ last.hasMessages
        /\ last.messages # <<>>
        /\ last.messages[Len(last.messages)].sender = "ai"

\* C6: a chat call with a valid token is answered 403 when the session is
\* owned by another user and 404 when no conversation has the session_id;
\* in both cases nothing is sent to the AI backend and no record changes.
C6_ForeignOrMissingSessionDenied ==
    [][(/\ last'.op = "chat"
        /\ JwtVerify(last'.token).ok
        /\ last'.req_session # NoSessionId
        /\ last'.req_message # ""
        /\ ~HandlerFailed(last'))
       => /\ (last'.req_session \notin DOMAIN conversations =>
                /\ last'.status = 404
                /\ last'.calls = 0
                /\ UNCHANGED <<conversations, cvs, files>>)
          /\ ((/\ last'.req_session \in DOMAIN conversations
               /\ conversations[last'.req_session].user_id # JwtVerify(last'.token).userId) =>
                /\ last'.status = 403
                /\ last'.calls = 0
                /\ UNCHANGED <<conversations, cvs, files>>)]_vars

\* A chat call on another user's session was answered 403.
C6_Witness ==
    /\ last.op = "chat"
    /\ last.status = 403
    /\ last.req_session \in DOMAIN conversations
    /\ conversations[last.req_session].user_id # JwtVerify(last.token).userId

\* C9: a request whose token cookie is missing or fails verification is
\* answered 401 whatever its body is, with no store access and no AI-backend
\* call before the token is verified.
C9_BadTokenAnswered401 ==
    (last.op # "none" /\ ~JwtVerify(last.token).ok) =>
        last.status = 401 /\ ~last.db /\ last.calls = 0

\* C10: when the backend answers a chat call with a message array, the relay
\* stores and returns a list with a new AI turn: the backend's list when it
\* has one (stored = returned once the write succeeded), and never a list
\* without one, such as an empty list.
C10_CanonicalListStoredAndWellFormed ==
    (ChatForwarded /\ last.upstream = "array") =>
        /\ last.hasMessages
        /\ (last.wrote => conversations[last.req_session].messages = last.messages)
        /\ HasNewAiTurn(last.messages, last.pre)

\* The list stored before the call followed by the user turn and an AI turn
\* with the given text.
WithLocalTurn(pre, user_message, aiText) ==
    pre \o <<Msg("user", user_message), Msg("ai", aiText)>>

\* C11: when the backend answers a chat call with a success status but a
\* malformed or incomplete body, the relay returns stored-before ++ [user
\* message, generic AI prompt] and persists that list.
C11_MalformedReplyAppendsAndPersists ==
    (ChatForwarded /\ last.upstream \in {"incomplete", "unparsable"}) =>
        /\ last.status = 200
        /\ last.hasMessages
        /\ \E aiText \in {ChatIncompleteText, ChatParseFallbackText} :
              last.messages = WithLocalTurn(last.pre, last.req_message, aiText)
        /\ (last.wrote => conversations[last.req_session].messages = last.messages)

\* C12: when the backend is unreachable during a chat call, the relay answers
\* 200 with stored-before ++ [user message, AI fallback prompt], exactly two
\* messages longer than the list it loaded, and writes that list as the
\* session's message list.
C12_UnreachableBackendAppendsTwo ==
    (ChatForwarded /\ last.upstream = "unreachable") =>
        /\ last.status = 200
        /\ last.hasMessages
        /\ last.messages = WithLocalTurn(last.pre, last.req_message, ChatFetchFallbackText)
        /\ Len(last.messages) = Len(last.pre) + 2
        /\ (last.wrote => conversations[last.req_session].messages = last.messages)

\* A chat call found the backend unreachable and its fallback list was written.
C12_Witness ==
    /\ ChatForwarded
    /\ last.upstream = "unreachable"
    /\ last.wrote
    /\ Len(conversations[last.req_session].messages) = Len(last.pre) + 2

\* The chat call just handled reached one of its three updateOne calls and
\* the write failed.
ChatWriteFailed(r) ==
    /\ r.op = "chat"
    /\ r.calls = 1
    /\ r.upstream \in {"array", "unparsable", "unreachable"}
    /\ ~r.wrote

\* The list the relay has in hand when it writes: the backend's list, or the
\* local fallback list.
ChatFreshLists(r) ==
    {u.messages : u \in {x \in UpstreamChatReplies(r.pre, r.req_message) :
                            x.kind = "array" /\ r.upstream = "array"}}
    \cup {WithLocalTurn(r.pre, r.req_message, t) :
            t \in (IF r.upstream = "unparsable" THEN {ChatParseFallbackText}
                   ELSE IF r.upstream = "unreachable" THEN {ChatFetchFallbackText}
                   ELSE {})}

\* C13: when the store write of a chat call fails, after a backend reply or
\* after a local fallback list was built, the relay still answers 200 with
\* the fresh list and the stored list keeps its value from before the call.
C13_WriteFailureStillAnswers ==
    [][ChatWriteFailed(last') =>
          /\ last'.status = 200
          /\ last'.hasMessages
          /\ last'.messages \in ChatFreshLists(last')
          /\ UNCHANGED conversations]_vars

\* A chat call whose write failed was answered with a list that is not the
\* stored one.
C13_Witness ==
    /\ ChatWriteFailed(last)
    /\ last.status = 200
    /\ last.messages # conversations[last.req_session].messages


IsPrefix(short, long) ==
    /\ Len(short) <= Len(long)
    /\ \A i \in 1..Len(short) : long[i] = short[i]

\* C15: over non-overlapping chat turns on a session, whether served by the
\* backend or by the local fallback, the stored list only grows by
\* appending: the list stored before a turn is a prefix of the list stored
\* after it.
C15_StoredListAppendOnly ==
    [][last'.op = "chat" =>
          \A s \in DOMAIN conversations :
              /\ s \in DOMAIN conversations'
              /\ IsPrefix(conversations[s].messages, conversations'[s].messages)]_vars

----------------------------------------------------------------------------
(* Properties of the session listing, checked under SpecList *)

\* The last request was a listing call with a verified token.
Listed == last.op = "sessions" /\ JwtVerify(last.token).ok

OwnedBy(userId) == {s \in DOMAIN conversations : conversations[s].user_id = userId}

\* The listing was answered from the backend or from a store query that went
\* through.
ListingServed == last.upstream = "ok" \/ (last.db /\ last.wrote)

\* C17: with a valid token, the listing answers 200 with an empty sessions
\* list whenever the backend or the store fails (backend unreachable, any
\* non-2xx backend status, store query throwing), never an error response.
C17_ListingFailureGivesEmptyList ==
    (/\ Listed
     /\ \/ last.upstream \in {"unreachable", "error"}
        \/ (last.db /\ ~last.wrote)) =>
        /\ last.status = 200
        /\ last.hasSessions
        /\ last.sessions = <<>>

C19_ListingIdempotent ==
    [][(/\ last.op = "sessions"
        /\ last'.op = "sessions"
        /\ JwtVerify(last.token).ok
        /\ last'.token = last.token
        /\ conversations' = conversations)
       => /\ last'.hasSessions = last.hasSessions
          /\ last'.sessions = last.sessions]_vars

----------------------------------------------------------------------------
(* Properties of the CV listing, checked under SpecCvList *)

CvListOps == {"cvs", "cvs-second"}

\* The listing was answered from the CV collection.
CvListingServed(r) == r.op \in CvListOps /\ r.status = 200 /\ r.hasCvs /\ r.wrote

\* C21: after a successful CV upload, the user's immediately following CV
\* listing that the store answers has an entry for the new record with the
\* uploaded file's name, its byte count and lastUsed >= uploadedAt, however
\* many CVs the user already has.
C21_UploadedCvIsListed ==
    [][(/\ last.op = "save-cv" /\ last.status = 200
        /\ CvListingServed(last') /\ last'.token = last.token)
       => \E i \in 1..Len(last'.cvList) :
             /\ last'.cvList[i].id = last.resp_cv
             /\ last'.cvList[i].filename = last.req_file.name
             /\ last'.cvList[i].size = last.req_file.size
             /\ last'.cvList[i].lastUsed >= last'.cvList[i].uploadedAt]_vars
----------------------------------------------------------------------------
(* Properties of concurrent chat calls, checked under SpecRace *)

HasUserTurn(messages, r) ==
    \E i \in 1..Len(messages) : messages[i] = Msg("user", RaceMessage(r))

\* C14: the write of a chat call replaces the whole stored list by the list
\* built from what that call loaded, with no version check: when two calls
\* on one session both loaded before either wrote, the stored list ends up
\* with the user turn of only one of them.
C14_LastWriteWins ==
    [][\A r \in ChatRequests :
          (inflight[r].pc = "fetching" /\ inflight'[r].pc = "done" /\ inflight'[r].wrote) =>
              /\ conversations'[inflight[r].session_id].messages = last'.messages
              /\ last'.messages = WithLocalTurn(inflight[r].loaded, RaceMessage(r),
                                                last'.messages[Len(last'.messages)].text)
              /\ \A q \in ChatRequests \ {r} :
                    (inflight[q].session_id = inflight[r].session_id
                        /\ inflight[q].loaded = inflight[r].loaded) =>
                       ~HasUserTurn(conversations'[inflight[r].session_id].messages, q)]_vars

\* Both calls answered 200 and wrote, and the stored list has the second
\* call's user turn but not the first's.
C14_Witness ==
    /\ \A r \in ChatRequests : inflight[r].pc = "done" /\ inflight[r].wrote
    /\ inflight[1].session_id = inflight[2].session_id
    /\ HasUserTurn(conversations[inflight[1].session_id].messages, 2)
    /\ ~HasUserTurn(conversations[inflight[1].session_id].messages, 1)

----------------------------------------------------------------------------
(* Properties of session bootstrap, checked under SpecCv *)

StartOps == {"start-with-saved-cv", "start-json", "start-multipart"}

\* C4: when the AI backend fails (unreachable, non-2xx, reply without
\* session_id / first_ai_message), session bootstrap still answers with
\* success, a session_id and a non-empty first_ai_message from "ai".
C4_BootstrapFallbackOnUpstreamFailure ==
    (/\ last.op \in StartOps
     /\ last.calls = 1
     /\ last.upstream \in {"unreachable", "error", "unparsable", "incomplete"}) =>
        /\ ResponseOk(last.status)
        /\ last.session_id # NoSessionId
        /\ last.first.sender = "ai"
        /\ last.first.text # ""

\* C5: whenever session bootstrap returns a session_id with a success status,
\* the conversation store holds a record with that session_id, owned by the
\* caller, with the requested job role and exactly the returned opening
\* message.
C5_ReturnedSessionIsStored ==
    (/\ last.op \in StartOps
     /\ ResponseOk(last.status)
     /\ last.session_id # NoSessionId) =>
        /\ last.session_id \in DOMAIN conversations
        /\ conversations[last.session_id].user_id = JwtVerify(last.token).userId
        /\ conversations[last.session_id].job_role = last.req_role
        /\ conversations[last.session_id].messages = <<last.first>>

\* C8: session bootstrap with a cv_id of an existing CV record owned by
\* another user is answered 403 on every entry point, before anything is
\* sent to the AI backend.
C8_ForeignCvForbidden ==
    (/\ last.op \in StartOps
     /\ JwtVerify(last.token).ok
     /\ last.req_role # ""
     /\ last.req_cv \in DOMAIN cvs
     /\ cvs[last.req_cv].userId # JwtVerify(last.token).userId
     /\ ~HandlerFailed(last)) =>
        last.status = 403 /\ last.calls = 0

\* C16: session identifiers are globally unique: two session bootstrap calls
\* that return a session_id, fallback-<clock> and error-<clock> identifiers
\* included, and also at the same clock reading, return different ones.
C16_SessionIdsUnique ==
    [][(/\ last.op \in StartOps
        /\ last'.op \in StartOps
        /\ last.session_id # NoSessionId
        /\ last'.session_id # NoSessionId)
       => last'.session_id # last.session_id]_vars

\* C20: for every CV record lastUsed never decreases and is never earlier
\* than uploadedAt, and every session bootstrap that selects a saved CV of the
\* caller (start-with-saved-cv, multipart start with cv_id, JSON start with
\* cv_id) sets that record's lastUsed to the current time.
C20_LastUsedMonotoneAndRefreshed ==
    [][/\ \A c \in DOMAIN cvs' :
            /\ cvs'[c].lastUsed >= cvs'[c].uploadedAt
            /\ c \in DOMAIN cvs => cvs'[c].lastUsed >= cvs[c].lastUsed
       /\ (/\ last'.op \in StartOps
           /\ ResponseOk(last'.status)
           /\ last'.req_cv \in DOMAIN cvs
           /\ cvs[last'.req_cv].userId = JwtVerify(last'.token).userId)
          => /\ last'.req_cv \in DOMAIN cvs'
             /\ cvs'[last'.req_cv].lastUsed = now']_vars

\* C30: a session bootstrap that does not succeed leaves the CV store as it
\* was: when a bootstrap by the owner of a saved CV ends in an error response
\* (backing file missing, backend unreachable or non-2xx), no field of the
\* selected CV record, lastUsed included, differs from before.
C30_FailedBootstrapLeavesCvStore ==
    [][(/\ last'.op \in StartOps
        /\ last'.req_cv \in DOMAIN cvs
        /\ cvs[last'.req_cv].userId = JwtVerify(last'.token).userId
        /\ ~ResponseOk(last'.status))
       => cvs' = cvs]_vars

----------------------------------------------------------------------------
(* Properties of CV deletion, checked under SpecDelete *)

DeleteOps == {"delete-cv-first", "delete-cv", "delete-resume"}

\* C7: a CV-delete call with a valid token against a CV record owned by
\* another user is answered 403, never 404, and leaves the record and its
\* backing file in place, on every CV-delete endpoint.
C7_ForeignCvDeleteForbidden ==
    [][(/\ last'.op \in DeleteOps
        /\ JwtVerify(last'.token).ok
        /\ last'.req_cv \in DOMAIN cvs
        /\ cvs[last'.req_cv].userId # JwtVerify(last'.token).userId
        /\ ~HandlerFailed(last'))
       => /\ last'.status = 403
          /\ last'.req_cv \in DOMAIN cvs'
          /\ cvs'[last'.req_cv] = cvs[last'.req_cv]
          /\ (cvs[last'.req_cv].filePath \in files =>
                cvs[last'.req_cv].filePath \in files')]_vars

\* A delete call on another user's CV, whose file is on disk, was answered 403.
C7_Witness ==
    /\ last.op = "delete-cv"
    /\ last.status = 403
    /\ last.req_cv \in DOMAIN cvs
    /\ cvs[last.req_cv].userId # JwtVerify(last.token).userId
    /\ FileExists(cvs[last.req_cv])

\* C23: once a CV upload has written the file and created the record
\* (extractedText empty, fileSize the byte count, uploadedAt = lastUsed), the
\* forward to the backend is best-effort: whether the backend is unreachable,
\* answers non-2xx, answers something unparsable or without extracted_text,
\* the upload answers success and the record stays; extractedText is
\* non-empty only when the backend returned a non-empty extracted_text.
C23_UploadSucceedsWhateverBackendDoes ==
    [][(last'.op = "save-cv" /\ last'.calls = 1) =>
          LET id == last'.resp_cv
          IN  /\ last'.status = 200
              /\ id \notin DOMAIN cvs
              /\ id \in DOMAIN cvs'
              /\ \A c \in DOMAIN cvs : c \in DOMAIN cvs' /\ cvs'[c] = cvs[c]
              /\ cvs'[id].userId = JwtVerify(last'.token).userId
              /\ cvs'[id].originalName = last'.req_file.name
              /\ cvs'[id].fileSize = last'.req_file.size
              /\ cvs'[id].uploadedAt = cvs'[id].lastUsed
              /\ cvs'[id].filePath \in files'
              /\ (cvs'[id].extractedText # "") = (last'.upstream = "text")]_vars

\* An upload whose forward found the backend unreachable was answered success
\* and its record is stored with an empty extractedText.
C23_Witness ==
    /\ last.op = "save-cv"
    /\ last.upstream = "unreachable"
    /\ last.status = 200
    /\ last.resp_cv \in DOMAIN cvs
    /\ cvs[last.resp_cv].extractedText = ""
    /\ FileExists(cvs[last.resp_cv])

----------------------------------------------------------------------------
(* Properties of session bootstrap over a store with deletes, checked      *)
(* under SpecBoot                                                          *)

\* The bootstrap request names no CV content that can be read: no cv_file
\* and no cv_id, or a cv_id of the caller whose backing file is not on disk.
NoReadableCv(r) ==
    \/ r.req_cv = NoCvId /\ r.req_file = NoFile
    \/ /\ r.req_cv \in DOMAIN cvs
       /\ cvs[r.req_cv].userId = JwtVerify(r.token).userId
       /\ ~FileExists(cvs[r.req_cv])

\* C24: a session bootstrap of a signed-in user whose job role is missing or
\* empty, or whose CV reference yields no readable CV content, is answered
\* 400; nothing is sent to the backend and no conversation or CV record is
\* created.
C24_BootstrapRejectsUnreadableCv ==
    [][(/\ last'.op \in StartOps
        /\ JwtVerify(last'.token).ok
        /\ ~HandlerFailed(last')
        /\ (last'.req_role = "" \/ NoReadableCv(last')))
       => /\ last'.status = 400
          /\ last'.calls = 0
          /\ DOMAIN conversations' = DOMAIN conversations
          /\ DOMAIN cvs' = DOMAIN cvs]_vars

----------------------------------------------------------------------------
(* Properties of CV deletion with several records, checked under SpecStore *)

\* The answers of the three delete endpoints to the same request.
DeleteAnswers(token, id, unlinkOk) ==
    {CvDeleteFirst(token, "none", id, unlinkOk),
     CvDELETE(token, "none", id, unlinkOk),
     ResumeDELETE(token, "none", id, unlinkOk)}

\* C22: a CV-delete call by the record's owner that reaches the store removes
\* the record and answers success on every delete endpoint, whether the
\* unlink of the file succeeds, fails, or no file is found at any candidate
\* path.
C22_DeleteSurvivesFileFailure ==
    \A id \in DOMAIN cvs, token \in Tokens, unlinkOk \in BOOLEAN :
       (JwtVerify(token).ok /\ cvs[id].userId = JwtVerify(token).userId) =>
          \A out \in DeleteAnswers(token, id, unlinkOk) :
             /\ out.resp.status = 200
             /\ id \notin DOMAIN out.cvs

\* A delete by the owner was answered success and removed its record, and a
\* record that is still stored has no file at any candidate path: the next
\* delete finds no file.
C22_Witness ==
    /\ last.op \in DeleteOps
    /\ last.status = 200
    /\ last.wrote
    /\ last.req_cv \notin DOMAIN cvs
    /\ \E id \in DOMAIN cvs :
          \A i \in 1..Len(PotentialPaths(cvs[id])) :
             PotentialPaths(cvs[id])[i] \notin files

\* C25: a CV delete removes only files that back the deleted record: after
\* any sequence of uploads and deletes by any users, every CV record still in
\* the store, records uploaded under the same original filename included,
\* still has its backing file.
C25_StoredRecordsKeepTheirFile ==
    \A id \in DOMAIN cvs : FileExists(cvs[id])

----------------------------------------------------------------------------
(* Properties of the read endpoints, checked under SpecRead *)

\* C26: every item a read endpoint takes from the document store and returns
\* belongs to a record owned by the authenticated user: the summaries of the
\* session listing's direct query, the messages of the single-session get,
\* the entries of the CV listing.
C26_ReadsReturnOwnRecordsOnly ==
    LET userId == JwtVerify(last.token).userId
    IN  /\ (last.op = "sessions" /\ last.db /\ last.wrote) =>
              \A i \in 1..Len(last.sessions) :
                 /\ last.sessions[i].id \in DOMAIN conversations
                 /\ conversations[last.sessions[i].id].user_id = userId
        /\ (last.op = "session" /\ last.wrote) =>
              /\ last.req_session \in DOMAIN conversations
              /\ conversations[last.req_session].user_id = userId
              /\ last.messages = conversations[last.req_session].messages
        /\ CvListingServed(last) =>
              \A i \in 1..Len(last.cvList) :
                 /\ last.cvList[i].id \in DOMAIN cvs
                 /\ cvs[last.cvList[i].id].userId = userId
                 /\ last.cvList[i] = CvEntry(last.cvList[i].id)

\* A user who has a conversation got an entry from the CV listing's store
\* query while the store also holds a CV record and a conversation of
\* another user.
C26_Witness ==
    /\ CvListingServed(last)
    /\ Len(last.cvList) > 0
    /\ \E s \in DOMAIN conversations :
          conversations[s].user_id = JwtVerify(last.token).userId
    /\ \E c \in DOMAIN cvs : cvs[c].userId # JwtVerify(last.token).userId
    /\ \E s \in DOMAIN conversations :
          conversations[s].user_id # JwtVerify(last.token).userId

----------------------------------------------------------------------------
(* Properties of the database connection, checked under SpecDb *)

\* C28: for any number of calls of connectToDatabase and any interleaving of
\* them, calls that start before the first connection attempt has settled
\* included, mongoose.connect is invoked at most once and every call that
\* returns yields the same connection object.
C28_ConnectsAtMostOnce ==
    /\ Len(attempts) <= 1
    /\ \A c \in DbCalls : dbcalls[c].pc = "returned" =>
          /\ dbcalls[c].result # NoConnection
          /\ \A d \in DbCalls : dbcalls[d].pc = "returned" =>
                dbcalls[d].result = dbcalls[c].result

\* Two calls that both waited on the connection attempt and a call that
\* found the connection cached have returned.
C28_Witness ==
    \E c, d, e \in DbCalls :
       /\ c # d
       /\ dbcalls[c].pc = "returned" /\ dbcalls[c].waited
       /\ dbcalls[d].pc = "returned" /\ dbcalls[d].waited
       /\ dbcalls[e].pc = "returned" /\ ~dbcalls[e].waited

----------------------------------------------------------------------------
(* Properties of the chat relay over several records, checked under        *)
(* SpecFrame                                                               *)

\* The statuses of a chat call that was refused or whose upstream error was
\* passed on.
ChatRefused(r) ==
    \/ r.status \in {400, 401, 403, 404}
    \/ r.upstream = "error" /\ r.status \in UpstreamErrorStatuses

\* C27: a chat relay call changes at most the `messages` field of the one
\* conversation named by session_id: its owner, job role, CV text, creation
\* time and finished flag, every other conversation and every CV record stay
\* as they were; a call answered 400, 401, 403, 404 or with a passed-on
\* upstream error status changes no record.
C27_ChatChangesOnlyItsMessages ==
    [][last'.op = "chat" =>
          /\ DOMAIN conversations' = DOMAIN conversations
          /\ \A s \in DOMAIN conversations :
                IF s = last'.req_session
                THEN conversations'[s] =
                        [conversations[s] EXCEPT !.messages = conversations'[s].messages]
                ELSE conversations'[s] = conversations[s]
          /\ cvs' = cvs
          /\ files' = files
          /\ (ChatRefused(last') => conversations' = conversations)]_vars

\* A chat call changed the messages of its session while another
\* conversation and a CV record are in the stores.
C27_Witness ==
    /\ last.op = "chat"
    /\ last.wrote
    /\ last.req_session \in DOMAIN conversations
    /\ conversations[last.req_session].messages # last.pre
    /\ \E s \in DOMAIN conversations : s # last.req_session
    /\ DOMAIN cvs # {}

----------------------------------------------------------------------------
(* Properties of the suggest-roles-upload relay, checked under SpecRelay *)

\* C29: per inbound request the relay sends at most one solve-captcha request
\* and at most one resubmission (at most three outbound calls), does not go
\* round again when the resubmission is rejected, answers exactly once, and
\* answers 403 with captcha_required = true whenever a challenge was detected
\* and the solver failed, returned no token or threw.
C29_CaptchaRetryBounded ==
    \A r \in RelayRequests :
       LET relay == relays[r]
       IN  /\ relay.solves <= 1
           /\ relay.resubmits <= 1
           /\ relay.calls <= 3
           /\ relay.calls = (IF relay.first = "none" THEN 0 ELSE 1)
                             + relay.solves + relay.resubmits
           /\ relay.responses = (IF relay.pc = "done" THEN 1 ELSE 0)
           /\ (relay.pc = "challenged" => relay.solves = 0)
           /\ (relay.pc = "solved" => relay.resubmits = 0)
           /\ (relay.pc = "done" /\ relay.first = "captcha" /\ relay.solver # "token") =>
                 /\ relay.status = 403
                 /\ relay.captcha_required

\* One request was answered after a rejected resubmission, with three
\* outbound calls; another was answered 403 with captcha_required after the
\* solver returned no token.
C29_Witness ==
    \E r, q \in RelayRequests :
       /\ relays[r].pc = "done"
       /\ relays[r].resubmit \in {"error", "captcha"}
       /\ relays[r].calls = 3
       /\ relays[q].pc = "done"
       /\ relays[q].solver = "no_token"
       /\ relays[q].status = 403
       /\ relays[q].captcha_required

====
